---- MODULE Spec2Model ----
(***************************************************************************)
(* A state-machine model of TskDbSqlite (tsk3/auto/db_sqlite.cpp): the     *)
(* SQLite-backed object registry of The Sleuth Kit.  The tables of the     *)
(* database are sets of rows; every method of the class is one action.     *)
(* What SQLite itself does with a statement (rowid allocation, savepoint   *)
(* nesting, string-literal parsing) is modelled at the statement the code  *)
(* issues.                                                                  *)
(***************************************************************************)
EXTENDS Integers, Sequences, FiniteSets, TLC

(* ------------------------------ bounds --------------------------------- *)
\* rows tsk_objects may hold
MaxObjs == 2
\* native metadata addresses are 0..MaxAddr
MaxAddr == 1
\* depth of the savepoint stack
MaxSavepoints == 2
\* length of a file name
MaxNameLen == 2
\* rows tsk_objects may hold in the top-down ingestion of an image
MaxIngest == 6

(* ----------------------------- constants ------------------------------- *)
\* SQL NULL in an integer column
NULL == -1
\* the quote character, special in an SQL string literal
Quote == "'"
\* the terminating byte of a C string
NUL == "\\0"
\* the separator between file name and stream name
Colon == ":"

ObjIds == 1..MaxObjs
Addrs == 0..MaxAddr
SavepointNames == {"A", "B"}

\* DB_OBJECT_TYPES
DB_OBJECT_TYPE_IMG == "IMG"
DB_OBJECT_TYPE_VS == "VS"
DB_OBJECT_TYPE_VOL == "VOL"
DB_OBJECT_TYPE_FS == "FS"
DB_OBJECT_TYPE_FILE == "FILE"
\* DB_FILES_TYPES
DB_FILES_TYPE_FS == "FS"
DB_FILES_TYPE_CARVED == "CARVED"

\* The CREATE statements of initialize(), in the order they are executed.
SchemaOrder ==
    << "tsk_db_info", "tsk_objects", "tsk_image_info", "tsk_image_names",
       "tsk_vs_info", "tsk_vs_parts", "tsk_fs_info", "tsk_files",
       "tsk_files_path", "tsk_files_derived", "tsk_files_derived_method",
       "parObjId" >>

VARIABLES
    m_blkMapFlag,               \* block mapping was asked for at construction
    m_db,                       \* the sqlite3 handle: "NULL", "OPEN", or
                                \* "CLOSED" (it points to a handle that was
                                \* closed)
    m_selectFileIdByMetaAddr,   \* the prepared lookup: "NULL", "STMT",
                                \* "STMT_ERR" (its last step ended in error)
                                \* or "FREED" (it points to a statement that
                                \* was finalized)
    db,                         \* the database: its tables
    committed,                  \* the database without what the open
                                \* transaction wrote
    autocommit,                 \* TRUE when no transaction is open
    isTransactionSavepoint,     \* the open transaction was begun by SAVEPOINT
    savepoints,                 \* stack of [name, snap], innermost last
    last,                       \* the last call: its name, arguments, results
    returned                    \* object ids given back by successful calls

vars == << m_blkMapFlag, m_db, m_selectFileIdByMetaAddr, db, committed,
           autocommit,
           isTransactionSavepoint, savepoints, last, returned >>

txn == << autocommit, isTransactionSavepoint, savepoints >>

EmptyDb ==
    [ tables |-> {},
      tsk_objects |-> {},
      tsk_image_info |-> {},
      tsk_vs_info |-> {},
      tsk_vs_parts |-> {},
      tsk_fs_info |-> {},
      tsk_files |-> {},
      tsk_file_layout |-> {} ]

\* The statements of initialize() in this session: with block mapping,
\* CREATE TABLE tsk_file_layout comes before the index.
Schema ==
    IF m_blkMapFlag
    THEN SubSeq(SchemaOrder, 1, Len(SchemaOrder) - 1)
         \o << "tsk_file_layout", "parObjId" >>
    ELSE SchemaOrder

SchemaPrefix(k) == { Schema[i] : i \in 1..k }

\* The observation of one call: op the method, name the savepoint it names
\* ("" for none), rc its return value, why the branch that produced rc,
\* objId the value left in the out-parameter (NULL when the call did not
\* write it), stmtCalls the number of sqlite3_reset/bind/step calls made on
\* the lookup statement.
Observed(op, name, rc, why, objId, stmtCalls) ==
    [ op |-> op, name |-> name, rc |-> rc, why |-> why, objId |-> objId,
      stmtCalls |-> stmtCalls ]

Call(op, rc, why, objId, stmtCalls) ==
    Observed(op, "", rc, why, objId, stmtCalls)

\* TskDbSqlite::TskDbSqlite, with a_blkMapFlag one of flags
Constructed(flags) ==
    /\ m_blkMapFlag \in flags
    /\ m_db = "NULL"
    /\ m_selectFileIdByMetaAddr = "NULL"
    /\ db = EmptyDb
    /\ committed = EmptyDb
    /\ autocommit = TRUE
    /\ isTransactionSavepoint = FALSE
    /\ savepoints = << >>
    /\ last = Call("new", 0, "ok", NULL, 0)
    /\ returned = {}

\* A session constructed without block mapping
Init == Constructed({FALSE})

\* A session constructed with or without block mapping
InitBlkMap == Constructed(BOOLEAN)

(* ------------------------- statement execution ------------------------- *)
\* attempt_exec: 0 when the handle is set and sqlite3_exec gives SQLITE_OK.
\* sqlOk is SQLite's own verdict on the statement (the table exists, the
\* transaction state allows it); envOk is FALSE for a fault of the
\* environment (I/O error, full disk, busy database).
\* On a pointer to a closed handle sqlite3_exec, when it returns, returns
\* SQLITE_MISUSE (useAfterClose is the case in which it does not return).
attempt_exec(sqlOk, envOk) ==
    IF m_db = "NULL" THEN 1
    ELSE IF m_db = "CLOSED" THEN 1
    ELSE IF sqlOk /\ envOk THEN 0 ELSE 1

HasTable(d, t) == t \in d.tables

Max(S) == CHOOSE x \in S : \A y \in S : y <= x

\* A rowid that repeats the largest one in the table.
NextRowidRepeatsLargest(d) ==
    IF d.tsk_objects = {} THEN 1
    ELSE Max({ r.obj_id : r \in d.tsk_objects })

\* obj_id INTEGER PRIMARY KEY, inserted as NULL: SQLite gives the row the
\* largest rowid in the table plus one (1 in an empty table).
NextRowid(d) ==
    IF d.tsk_objects = {} THEN 1
    ELSE Max({ r.obj_id : r \in d.tsk_objects }) + 1


\* What a handler hands back: its return value, the branch taken, the
\* out-parameter, the database it leaves, the calls made on the lookup.
Result(rc, why, objId, d, stmtCalls) ==
    [ rc |-> rc, why |-> why, objId |-> objId, db |-> d,
      stmtCalls |-> stmtCalls, stmt |-> m_selectFileIdByMetaAddr ]

\* A content call leaves its result in the database, in the state of the
\* lookup statement and in the observation; the handle and the transaction
\* state are not touched by it.  Outside a transaction every statement
\* commits what it wrote.
Apply(op, r) ==
    /\ db' = r.db
    /\ committed' = IF autocommit THEN r.db ELSE committed
    /\ m_selectFileIdByMetaAddr' = r.stmt
    /\ last' = Call(op, r.rc, r.why, r.objId, r.stmtCalls)
    /\ returned' = IF r.rc = 0 /\ r.objId # NULL
                   THEN returned \cup {r.objId} ELSE returned
    /\ UNCHANGED << m_blkMapFlag, m_db, autocommit, isTransactionSavepoint,
                    savepoints >>

(* ------------------------------ session -------------------------------- *)
\* What sqlite3_open does: "ok"; "error", where it returns an error and
\* leaves a handle in m_db that is to be closed; "nomem", where it returns
\* an error and leaves NULL.
OpenOutcomes == { "ok", "error", "nomem" }

\* TskDbSqlite::open, on a session whose handle is not open.  After an
\* error sqlite3_close(m_db) closes the handle and m_db is left as it is.
openAs(outcome) ==
    /\ m_db # "OPEN"
    /\ m_db' = CASE outcome = "ok" -> "OPEN"
                 [] outcome = "error" -> "CLOSED"
                 [] OTHER -> "NULL"
    /\ last' = Call("open", IF outcome = "ok" THEN 0 ELSE 1,
                    IF outcome = "ok" THEN "ok" ELSE "open", NULL, 0)
    /\ UNCHANGED << m_blkMapFlag, m_selectFileIdByMetaAddr, db, committed, txn,
                    returned >>

\* TskDbSqlite::open, on a session that holds no handle; sqlite3_open
\* succeeds
open == m_db = "NULL" /\ openAs("ok")

\* A call that passes a pointer to a closed handle to SQLite and ends the
\* process there: sqlite3_close in close(), sqlite3_exec in attempt_exec,
\* sqlite3_prepare_v2 in setup.
useAfterClose(op) ==
    /\ m_db = "CLOSED"
    /\ last' = Call(op, NULL, "abort", NULL, 0)
    /\ UNCHANGED << m_blkMapFlag, m_db, m_selectFileIdByMetaAddr, db,
                    committed, txn, returned >>

\* TskDbSqlite::initialize: the first k statements that create a table or
\* an index succeed.  CREATE TABLE tsk_db_info fails when the table is
\* already there.
initializeResult(k) ==
    LET first == attempt_exec(~HasTable(db, "tsk_db_info"), k >= 1)
    IN IF first # 0 THEN Result(1, "exec", NULL, db, 0)
       ELSE Result(IF k = Len(Schema) THEN 0 ELSE 1,
                   IF k = Len(Schema) THEN "ok" ELSE "exec", NULL,
                   [db EXCEPT !.tables = @ \cup SchemaPrefix(k)], 0)

initialize(k) == Apply("initialize", initializeResult(k))

\* TskDbSqlite::setup: sqlite3_prepare_v2 leaves NULL in the pointer when
\* it fails (no handle, no tsk_files table, or a fault).
setup(envOk) ==
    LET ok == m_db = "OPEN" /\ HasTable(db, "tsk_files") /\ envOk
    IN /\ m_selectFileIdByMetaAddr' = IF ok THEN "STMT" ELSE "NULL"
       /\ last' = Call("setup", IF ok THEN 0 ELSE 1,
                       IF ok THEN "ok" ELSE "prepare", NULL, 0)
       /\ UNCHANGED << m_blkMapFlag, m_db, db, committed, txn, returned >>

\* What a call that passes a pointer to a finalized statement to SQLite may
\* do: go on as if the statement were there, or end the process.
UB == { "continues", "aborts" }

\* sqlite3_finalize(stmt): "none" on NULL, "once" on a statement, "again" on
\* a pointer to a statement that was finalized before ("abort" when that
\* ends the process).
Finalize(stmt, ub) ==
    CASE stmt = "NULL" -> "none"
      [] stmt = "FREED" -> IF ub = "aborts" THEN "abort" ELSE "again"
      [] OTHER -> "once"

\* TskDbSqlite::cleanup: finalizes and clears a pointer that is not NULL.
cleanup ==
    \E ub \in UB :
        LET f == Finalize(m_selectFileIdByMetaAddr, ub)
        IN /\ m_selectFileIdByMetaAddr' = "NULL"
           /\ last' = Call("cleanup", 1,
                           IF f \in {"again", "abort"} THEN f ELSE "ok", NULL, 0)
           /\ UNCHANGED << m_blkMapFlag, m_db, db, committed, txn, returned >>

\* A close that does not test m_db.
closeUnguarded ==
    \E ub \in UB :
        LET f == Finalize(m_selectFileIdByMetaAddr, ub)
        IN /\ m_selectFileIdByMetaAddr' =
                  IF m_selectFileIdByMetaAddr = "NULL" THEN "NULL" ELSE "FREED"
           /\ m_db' = "NULL"
           /\ last' = Call("close", 0,
                           IF f \in {"again", "abort"} THEN f ELSE "closed",
                           NULL, 0)
           /\ db' = committed
           /\ autocommit' = TRUE
           /\ isTransactionSavepoint' = FALSE
           /\ savepoints' = << >>
           /\ UNCHANGED << m_blkMapFlag, committed, returned >>

\* TskDbSqlite::close.  With a handle: the statement pointer is finalized
\* and left as it is, the handle is closed and m_db cleared; sqlite3_close
\* rolls back a transaction that is open, and the committed database stays
\* in its file.  Without one: nothing.  A pointer to a closed handle is a
\* handle to close(): it is passed to sqlite3_close a second time.
close ==
    \E ub \in UB :
        LET f == Finalize(m_selectFileIdByMetaAddr, ub)
        IN /\ IF m_db = "NULL"
              THEN /\ last' = Call("close", 0, "noop", NULL, 0)
                   /\ UNCHANGED << m_db, m_selectFileIdByMetaAddr, db, txn >>
              ELSE /\ m_selectFileIdByMetaAddr' =
                          IF m_selectFileIdByMetaAddr = "NULL" THEN "NULL"
                          ELSE "FREED"
                   /\ m_db' = "NULL"
                   /\ last' = Call("close", 0,
                                   IF f \in {"again", "abort"} THEN f
                                   ELSE IF m_db = "CLOSED" THEN "closed twice"
                                   ELSE "closed", NULL, 0)
                   /\ db' = committed
                   /\ autocommit' = TRUE
                   /\ isTransactionSavepoint' = FALSE
                   /\ savepoints' = << >>
           /\ UNCHANGED << m_blkMapFlag, committed, returned >>

\* TskDbSqlite::dbExist
dbExist == m_db # "NULL"

(* --------------------------- object registry --------------------------- *)
\* Allocating actions are taken while tsk_objects has room for a row.
CanAllocate(max) == Cardinality(db.tsk_objects) < max

\* An insert that replaces the rows of the table.
InsertObjectOverwrites(d, type, parObjId) ==
    [d EXCEPT !.tsk_objects =
        { [ obj_id |-> NextRowid(d), par_obj_id |-> parObjId, type |-> type ] }]

\* The INSERT INTO tsk_objects of addObject and addImageInfo: the table has
\* no foreign key, so any par_obj_id is stored as given.
InsertObject(d, type, parObjId) ==
    [d EXCEPT !.tsk_objects = @ \cup
        { [ obj_id |-> NextRowid(d), par_obj_id |-> parObjId, type |-> type ] }]

\* TskDbSqlite::addObject.  rc 0: the row is inserted and objId is
\* sqlite3_last_insert_rowid; rc 1: nothing is written.
addObject(d, type, parObjId, envOk) ==
    LET rc == attempt_exec(HasTable(d, "tsk_objects"), envOk)
    IN IF rc = 0
       THEN [ rc |-> 0, objId |-> NextRowid(d),
              db |-> InsertObject(d, type, parObjId) ]
       ELSE [ rc |-> 1, objId |-> NULL, db |-> d ]

\* An INSERT of one row into table t.
InsertRow(d, t, row) ==
    CASE t = "tsk_image_info" -> [d EXCEPT !.tsk_image_info = @ \cup {row}]
      [] t = "tsk_vs_info"    -> [d EXCEPT !.tsk_vs_info = @ \cup {row}]
      [] t = "tsk_vs_parts"   -> [d EXCEPT !.tsk_vs_parts = @ \cup {row}]
      [] t = "tsk_fs_info"    -> [d EXCEPT !.tsk_fs_info = @ \cup {row}]
      [] t = "tsk_files"      -> [d EXCEPT !.tsk_files = @ \cup {row}]
      [] t = "tsk_file_layout" ->
             [d EXCEPT !.tsk_file_layout = @ \cup {row}]

\* An allocating call that goes on to its second insert when the first failed.
AllocateAndWriteUnchecked(type, parObjId, t, env) ==
    LET a == addObject(db, type, parObjId, env.exec1)
        rc2 == attempt_exec(HasTable(a.db, t), env.exec2)
    IN IF rc2 # 0 THEN Result(1, "exec2", a.objId, a.db, 0)
       ELSE Result(a.rc, "ok", a.objId,
                   InsertRow(a.db, t, [ obj_id |-> a.objId ]), 0)

\* The shape shared by addImageInfo, addVsInfo, addVolumeInfo and addFsInfo:
\* allocate, return 1 when that fails, else insert the attribute row and
\* return what that insert returns.
\* A registry call that undoes its tsk_objects row when the attribute insert
\* fails.
AllocateAndWriteRollsBack(type, parObjId, t, env) ==
    LET a == addObject(db, type, parObjId, env.exec1)
        rc2 == attempt_exec(HasTable(a.db, t), env.exec2)
    IN IF a.rc # 0 THEN Result(1, "exec", NULL, db, 0)
       ELSE IF rc2 # 0 THEN Result(1, "exec2", a.objId, db, 0)
       ELSE Result(0, "ok", a.objId,
                   InsertRow(a.db, t, [ obj_id |-> a.objId ]), 0)

AllocateAndWrite(type, parObjId, t, env) ==
    LET a == addObject(db, type, parObjId, env.exec1)
        rc2 == attempt_exec(HasTable(a.db, t), env.exec2)
    IN IF a.rc # 0 THEN Result(1, "exec", NULL, db, 0)
       ELSE IF rc2 # 0 THEN Result(1, "exec2", a.objId, a.db, 0)
       ELSE Result(0, "ok", a.objId,
                   InsertRow(a.db, t, [ obj_id |-> a.objId ]), 0)

\* TskDbSqlite::addImageInfo
addImageInfoResult(env) ==
    AllocateAndWrite(DB_OBJECT_TYPE_IMG, NULL, "tsk_image_info", env)

addImageInfo(env) == Apply("addImageInfo", addImageInfoResult(env))

\* TskDbSqlite::addVsInfo
addVsInfoResult(parObjId, env) ==
    AllocateAndWrite(DB_OBJECT_TYPE_VS, parObjId, "tsk_vs_info", env)

addVsInfo(parObjId, env) == Apply("addVsInfo", addVsInfoResult(parObjId, env))

\* TskDbSqlite::addVolumeInfo
addVolumeInfoResult(parObjId, env) ==
    AllocateAndWrite(DB_OBJECT_TYPE_VOL, parObjId, "tsk_vs_parts", env)

addVolumeInfo(parObjId, env) ==
    Apply("addVolumeInfo", addVolumeInfoResult(parObjId, env))

\* TskDbSqlite::addFsInfo
addFsInfoResult(parObjId, root_inum, env) ==
    LET r == AllocateAndWrite(DB_OBJECT_TYPE_FS, parObjId, "tsk_fs_info", env)
    IN IF r.rc # 0 THEN r
       ELSE [r EXCEPT !.db.tsk_fs_info =
                (@ \ { [ obj_id |-> r.objId ] }) \cup
                { [ obj_id |-> r.objId, root_inum |-> root_inum ] }]

addFsInfo(parObjId, root_inum, env) ==
    Apply("addFsInfo", addFsInfoResult(parObjId, root_inum, env))

(* ---------------------------- name escaping ---------------------------- *)
\* The bytes a name may hold (a C string holds no NUL).
Alphabet == { Quote, "a" }

\* All byte strings of length at most n.
Names(n) == UNION { [1..k -> Alphabet] : k \in 0..n }

TSK_FS_ATTR_TYPE_NTFS_IDXROOT == "IDXROOT"
TSK_FS_ATTR_TYPE_NTFS_DATA == "DATA"
\* "$I30"
I30 == << "$", "I", "3", "0" >>

\* fs_attr == NULL
NoAttr == [ present |-> FALSE, type |-> "NONE", hasName |-> FALSE,
            name |-> << >> ]
\* fs_attr with fs_attr->name == NULL
UnnamedAttr(type) == [ present |-> TRUE, type |-> type, hasName |-> FALSE,
                       name |-> << >> ]
NamedAttr(type, name) == [ present |-> TRUE, type |-> type, hasName |-> TRUE,
                           name |-> name ]

\* tsk_malloc(n): n bytes, zero-filled
tsk_malloc(n) == [ i \in 1..n |-> NUL ]

\* name[j] = c, j counted from 0; a store past the allocation is not part
\* of the buffer
Put(buf, j, c) == IF j < Len(buf) THEN [buf EXCEPT ![j + 1] = c] ELSE buf

\* for (i = 0; i < len && j < nlen; i++): a quote is written twice, any
\* other byte once
RECURSIVE EscapeLoop(_, _, _, _, _)
EscapeLoop(src, i, j, buf, nlen) ==
    IF i < Len(src) /\ j < nlen
    THEN IF src[i + 1] = Quote
         THEN EscapeLoop(src, i + 1, j + 2,
                         Put(Put(buf, j, Quote), j + 1, Quote), nlen)
         ELSE EscapeLoop(src, i + 1, j + 1, Put(buf, j, src[i + 1]), nlen)
    ELSE [ j |-> j, buf |-> buf ]

\* addFile: the length of the stream name that is appended (0 for none, for
\* an unnamed attribute, and for the NTFS index root named $I30)
AttrNlen(attr) ==
    IF attr.present /\ attr.hasName
       /\ (attr.type # TSK_FS_ATTR_TYPE_NTFS_IDXROOT \/ attr.name # I30)
    THEN Len(attr.name) ELSE 0

\* addFile / addCarvedFileInfo: the write index j and the buffer `name`
\* after the loops
SanitizeLoops(name, attr) ==
    LET attr_nlen == AttrNlen(attr)
        nlen == 2 * (Len(name) + attr_nlen)
        a == EscapeLoop(name, 0, 0, tsk_malloc(nlen + 1), nlen)
    IN IF attr_nlen > 0
       THEN EscapeLoop(attr.name, 0, a.j + 1, Put(a.buf, a.j, Colon), nlen)
       ELSE a

\* addFile / addCarvedFileInfo: the buffer `name` after the loops
SanitizedName(name, attr) == SanitizeLoops(name, attr).buf

\* What "%s" prints for a buffer: its bytes up to the first NUL.  A buffer
\* that holds no NUL is read past its end: the bytes found there (garbage)
\* follow, up to whatever NUL ends them.
CString(buf, garbage) ==
    IF \E i \in 1..Len(buf) : buf[i] = NUL
    THEN SubSeq(buf, 1, (CHOOSE i \in 1..Len(buf) :
                           buf[i] = NUL /\ \A k \in 1..(i - 1) : buf[k] # NUL) - 1)
    ELSE buf \o garbage

\* SQLite reading the literal '<text>': a doubled quote is one quote; a
\* single quote ends the literal, and what follows it no longer parses.
RECURSIVE ParseLiteral(_, _, _)
ParseLiteral(text, i, acc) ==
    IF i > Len(text) THEN [ ok |-> TRUE, val |-> acc ]
    ELSE IF text[i] # Quote THEN ParseLiteral(text, i + 1, Append(acc, text[i]))
    ELSE IF i < Len(text) /\ text[i + 1] = Quote
         THEN ParseLiteral(text, i + 2, Append(acc, Quote))
         ELSE [ ok |-> FALSE, val |-> acc ]

(* ---------------------------- file ingestion --------------------------- *)
Min(S) == CHOOSE x \in S : \A y \in S : x <= y

\* A lookup by meta_addr alone.
SelectFileIdInAnyFs(d, meta_addr, fsObjId) ==
    { r.obj_id : r \in { x \in d.tsk_files : x.meta_addr = meta_addr } }

\* A lookup by fs_obj_id alone.
SelectFileIdInFs(d, meta_addr, fsObjId) ==
    { r.obj_id : r \in { x \in d.tsk_files : x.fs_obj_id = fsObjId } }

\* SELECT obj_id FROM tsk_files WHERE meta_addr IS ? AND fs_obj_id IS ?
SelectFileIdByMetaAddr(d, meta_addr, fsObjId) ==
    { r.obj_id : r \in { x \in d.tsk_files :
                           x.meta_addr = meta_addr /\ x.fs_obj_id = fsObjId } }

\* sqlite3_column_int64 after the first sqlite3_step: the matching row that
\* was inserted first
FirstRow(ids) == Min(ids)

\* NULL, and the values the code passes by name, in the columns of
\* tsk_files that the model keeps as symbols
SqlNull == "NULL"
TSK_FS_NAME_TYPE_REG == "TSK_FS_NAME_TYPE_REG"
TSK_FS_META_TYPE_REG == "TSK_FS_META_TYPE_REG"
TSK_FS_NAME_FLAG_UNALLOC == "TSK_FS_NAME_FLAG_UNALLOC"

\* addFile: the columns after meta_addr, for a record without metadata
\* (fs_file->meta == NULL leaves the zeros the locals start with); attr_type
\* and attr_id are those of fs_attr, 0 without one.
FsCols(attr) ==
    [ attr_type |-> IF attr.present THEN attr.type ELSE "0",
      attr_id |-> IF attr.present THEN "fs_attr->id" ELSE "0",
      dir_type |-> "name->type", meta_type |-> "0",
      dir_flags |-> "name->flags", meta_flags |-> "0",
      size |-> 0,
      crtime |-> "0", ctime |-> "0", atime |-> "0", mtime |-> "0",
      mode |-> "0", gid |-> "0", uid |-> "0" ]

\* Carved columns with the zeros addFile writes for a record without
\* metadata.
CarvedColsZeroed(size) ==
    [ FsCols(NoAttr) EXCEPT !.size = size,
                            !.dir_type = TSK_FS_NAME_TYPE_REG,
                            !.meta_type = TSK_FS_META_TYPE_REG,
                            !.dir_flags = TSK_FS_NAME_FLAG_UNALLOC,
                            !.meta_flags = TSK_FS_NAME_FLAG_UNALLOC ]

\* addCarvedFileInfo: the columns after meta_addr
CarvedCols(size) ==
    [ attr_type |-> SqlNull, attr_id |-> SqlNull,
      dir_type |-> TSK_FS_NAME_TYPE_REG, meta_type |-> TSK_FS_META_TYPE_REG,
      dir_flags |-> TSK_FS_NAME_FLAG_UNALLOC,
      meta_flags |-> TSK_FS_NAME_FLAG_UNALLOC,
      size |-> size,
      crtime |-> SqlNull, ctime |-> SqlNull, atime |-> SqlNull,
      mtime |-> SqlNull,
      mode |-> SqlNull, gid |-> SqlNull, uid |-> SqlNull ]

\* A test that takes every record as named.
NameIsNeverNull(f) == FALSE

\* fs_file->name == NULL
NameIsNull(f) == ~f.named

\* TskDbSqlite::addFile
addFileResult(f, fsObjId, parObjId, env, stmtCalls) ==
    IF NameIsNull(f) THEN Result(0, "skip", NULL, db, stmtCalls)
    ELSE IF ~env.malloc THEN Result(1, "malloc", NULL, db, stmtCalls)
    ELSE LET text == CString(SanitizedName(f.name, f.attr), env.garbage)
             lit == ParseLiteral(text, 1, << >>)
             a == addObject(db, DB_OBJECT_TYPE_FILE, parObjId, env.exec1)
             rc2 == attempt_exec(HasTable(a.db, "tsk_files") /\ lit.ok,
                                 env.exec2)
         IN IF a.rc # 0 THEN Result(1, "exec", NULL, db, stmtCalls)
            ELSE IF rc2 # 0 THEN Result(1, "exec2", a.objId, a.db, stmtCalls)
            ELSE Result(0, "ok", a.objId,
                        InsertRow(a.db, "tsk_files",
                            [ fs_obj_id |-> fsObjId, obj_id |-> a.objId,
                              type |-> DB_FILES_TYPE_FS, name |-> lit.val,
                              meta_addr |-> f.meta_addr,
                              cols |-> FsCols(f.attr) ]),
                        stmtCalls)

addFile(f, fsObjId, parObjId, env) ==
    Apply("addFile", addFileResult(f, fsObjId, parObjId, env, 0))

\* A root test on the parent address.
IsRootByParAddr(f) == f.root_inum = f.par_addr

\* fs_file->fs_info->root_inum == fs_file->name->meta_addr
IsRootDirectory(f) == f.root_inum = f.meta_addr

\* TskDbSqlite::addFsFile
addFsFileResult(f, fsObjId, env) ==
    IF NameIsNull(f) THEN Result(0, "skip", NULL, db, 0)
    ELSE IF IsRootDirectory(f)
    THEN addFileResult(f, fsObjId, fsObjId, env, 0)
    ELSE IF m_selectFileIdByMetaAddr = "NULL"
    THEN \* sqlite3_reset(NULL) is SQLITE_OK, sqlite3_bind_int64(NULL, ...)
         \* is SQLITE_MISUSE
         Result(1, "misuse", NULL, db, 2)
    ELSE IF m_selectFileIdByMetaAddr = "STMT_ERR"
    THEN \* sqlite3_reset gives the error of the step before it, and resets
         [Result(1, "reset", NULL, db, 1) EXCEPT !.stmt = "STMT"]
    ELSE IF ~HasTable(db, "tsk_files") \/ ~env.step
    THEN [Result(1, "step", NULL, db, 4) EXCEPT !.stmt = "STMT_ERR"]
    ELSE LET ids == SelectFileIdByMetaAddr(db, f.par_addr, fsObjId)
         IN IF ids = {}
            THEN \* SQLITE_DONE is not SQLITE_ROW
                 Result(1, "norow", NULL, db, 4)
            ELSE addFileResult(f, fsObjId, FirstRow(ids), env, 4)

addFsFile(f, fsObjId, env) ==
    Apply("addFsFile", addFsFileResult(f, fsObjId, env))

\* TskDbSqlite::addCarvedFileInfo
addCarvedFileInfoResult(fsObjId, fileName, size, env) ==
    IF ~env.malloc THEN Result(1, "malloc", NULL, db, 0)
    ELSE LET text == CString(SanitizedName(fileName, NoAttr), env.garbage)
             lit == ParseLiteral(text, 1, << >>)
             a == addObject(db, DB_OBJECT_TYPE_FILE, fsObjId, env.exec1)
             rc2 == attempt_exec(HasTable(a.db, "tsk_files") /\ lit.ok,
                                 env.exec2)
         IN IF a.rc # 0 THEN Result(1, "exec", NULL, db, 0)
            ELSE IF rc2 # 0 THEN Result(1, "exec2", a.objId, a.db, 0)
            ELSE Result(0, "ok", a.objId,
                        InsertRow(a.db, "tsk_files",
                            [ fs_obj_id |-> fsObjId, obj_id |-> a.objId,
                              type |-> DB_FILES_TYPE_CARVED, name |-> lit.val,
                              meta_addr |-> NULL, cols |-> CarvedCols(size) ]),
                        0)

addCarvedFileInfo(fsObjId, fileName, size, env) ==
    Apply("addCarvedFileInfo",
          addCarvedFileInfoResult(fsObjId, fileName, size, env))

(* ----------------------------- block layout ---------------------------- *)
\* A uint64_t: the number hi * 2^63 + low, with hi 0 or 1 and low below 2^63.
\* A number below zero has hi = -1.
U64(hi, low) == [ hi |-> hi, low |-> low ]

\* snprintf %lld given a uint64_t: the numeral of the 64 bits read as a
\* signed number, v - 2^64 when the top bit is set.
FormatLld(v) == IF v.hi = 1 THEN U64(-1, v.low) ELSE v

\* snprintf %llu given a uint64_t: the numeral of v.
FormatLlu(v) == v

\* The integer n as a stored value.
SqlInteger(n) == [ storage |-> "INTEGER", hi |-> n.hi, low |-> n.low ]

\* What SQLite stores in an INTEGER column for the numeral of n: the integer
\* when it fits 64 signed bits; a numeral of 2^63 or more is read as a REAL,
\* the nearest double (the doubles from 2^63 to 2^64 are 2048 apart), which
\* the column keeps as a REAL.
SqlLiteral(n) ==
    IF n.hi = 1
    THEN [ storage |-> "REAL", hi |-> 1,
           low |-> ((n.low + 1024) \div 2048) * 2048 ]
    ELSE SqlInteger(n)

\* The rowid SQLite gives a new row of tsk_file_layout.
NextLayoutRowid(d) ==
    IF d.tsk_file_layout = {} THEN 1
    ELSE Max({ r.rowid : r \in d.tsk_file_layout }) + 1

\* The row of the INSERT of addFsBlockInfo.  The table has no key: a run
\* that is inserted twice is stored twice, under two rowids.
FsBlockRow(d, a_fsObjId, a_fileObjId, a_byteStart, a_byteLen) ==
    [ rowid |-> NextLayoutRowid(d),
      fs_id |-> a_fsObjId,
      byte_start |-> SqlLiteral(FormatLld(a_byteStart)),
      byte_len |-> SqlLiteral(FormatLlu(a_byteLen)),
      obj_id |-> a_fileObjId ]

\* TskDbSqlite::addFsBlockInfo
addFsBlockInfoResult(a_fsObjId, a_fileObjId, a_byteStart, a_byteLen, envOk) ==
    LET rc == attempt_exec(HasTable(db, "tsk_file_layout"), envOk)
    IN IF rc # 0 THEN Result(1, "exec", NULL, db, 0)
       ELSE Result(0, "ok", NULL,
                   InsertRow(db, "tsk_file_layout",
                             FsBlockRow(db, a_fsObjId, a_fileObjId,
                                        a_byteStart, a_byteLen)), 0)

addFsBlockInfo(a_fsObjId, a_fileObjId, a_byteStart, a_byteLen, envOk) ==
    Apply("addFsBlockInfo",
          addFsBlockInfoResult(a_fsObjId, a_fileObjId, a_byteStart, a_byteLen,
                               envOk))

(* ----------------------- transactions, savepoints ---------------------- *)
\* A statement that changes the transaction state leaves the handle, the
\* lookup statement and the ids handed out alone.
Control(op, name, rc) ==
    /\ last' = Observed(op, name, rc, IF rc = 0 THEN "ok" ELSE "exec", NULL, 0)
    /\ UNCHANGED << m_blkMapFlag, m_db, m_selectFileIdByMetaAddr, returned >>

\* TskDbSqlite::begin.  BEGIN fails inside a transaction.
begin(envOk) ==
    LET rc == attempt_exec(autocommit, envOk)
    IN /\ Control("begin", "", rc)
       /\ autocommit' = IF rc = 0 THEN FALSE ELSE autocommit
       /\ UNCHANGED << db, committed, isTransactionSavepoint, savepoints >>

\* TskDbSqlite::commit.  COMMIT fails when no transaction is open; it ends
\* every savepoint.
commit(envOk) ==
    LET rc == attempt_exec(~autocommit, envOk)
    IN /\ Control("commit", "", rc)
       /\ autocommit' = IF rc = 0 THEN TRUE ELSE autocommit
       /\ isTransactionSavepoint' =
              IF rc = 0 THEN FALSE ELSE isTransactionSavepoint
       /\ savepoints' = IF rc = 0 THEN << >> ELSE savepoints
       /\ committed' = IF rc = 0 THEN db ELSE committed
       /\ UNCHANGED db

\* TskDbSqlite::savepoint.  SAVEPOINT name opens a transaction when none is
\* open, and remembers the database as it is.
savepoint(name, envOk) ==
    LET rc == attempt_exec(TRUE, envOk)
    IN /\ Len(savepoints) < MaxSavepoints
       /\ Control("savepoint", name, rc)
       /\ savepoints' = IF rc = 0
                        THEN Append(savepoints, [ name |-> name, snap |-> db ])
                        ELSE savepoints
       /\ autocommit' = IF rc = 0 THEN FALSE ELSE autocommit
       /\ isTransactionSavepoint' =
              IF rc = 0 /\ autocommit THEN TRUE ELSE isTransactionSavepoint
       /\ UNCHANGED << db, committed >>

\* The outermost savepoint called name (0 when there is none).
FindOutermostSavepoint(stack, name) ==
    IF \E i \in 1..Len(stack) : stack[i].name = name
    THEN Min({ i \in 1..Len(stack) : stack[i].name = name })
    ELSE 0

\* The innermost savepoint called name (0 when there is none).
FindSavepoint(stack, name) ==
    IF \E i \in 1..Len(stack) : stack[i].name = name
    THEN Max({ i \in 1..Len(stack) : stack[i].name = name })
    ELSE 0

\* TskDbSqlite::rollbackSavepoint.  ROLLBACK TO SAVEPOINT name undoes what
\* was written since the innermost savepoint of that name, ends the
\* savepoints inside it and keeps it.
rollbackSavepoint(name, envOk) ==
    LET k == FindSavepoint(savepoints, name)
        rc == attempt_exec(k > 0, envOk)
    IN /\ Control("rollbackSavepoint", name, rc)
       /\ db' = IF rc = 0 THEN savepoints[k].snap ELSE db
       /\ savepoints' = IF rc = 0 THEN SubSeq(savepoints, 1, k) ELSE savepoints
       /\ UNCHANGED << committed, autocommit, isTransactionSavepoint >>

\* TskDbSqlite::releaseSavepoint.  RELEASE SAVEPOINT name ends the innermost
\* savepoint of that name and those inside it, keeping what was written;
\* releasing the savepoint that opened the transaction commits it.
releaseSavepoint(name, envOk) ==
    LET k == FindSavepoint(savepoints, name)
        rc == attempt_exec(k > 0, envOk)
        commits == rc = 0 /\ k = 1 /\ isTransactionSavepoint
    IN /\ Control("releaseSavepoint", name, rc)
       /\ savepoints' = IF rc = 0 THEN SubSeq(savepoints, 1, k - 1)
                        ELSE savepoints
       /\ autocommit' = IF commits THEN TRUE ELSE autocommit
       /\ isTransactionSavepoint' =
              IF commits THEN FALSE ELSE isTransactionSavepoint
       /\ committed' = IF commits THEN db ELSE committed
       /\ UNCHANGED db

(* ------------------------------ the inputs ----------------------------- *)
\* Faults of the environment: exec1/exec2 the first and second statement a
\* call executes, malloc the allocation of the name buffer, step the step of
\* the lookup; garbage the bytes that follow the name buffer in memory.
NoFault == [ exec1 |-> TRUE, exec2 |-> TRUE, malloc |-> TRUE, step |-> TRUE,
             garbage |-> << >> ]
ExecFaults ==
    { NoFault,
      [NoFault EXCEPT !.exec1 = FALSE],
      [NoFault EXCEPT !.exec2 = FALSE] }
StepFaults == { NoFault, [NoFault EXCEPT !.step = FALSE] }
Faults ==
    ExecFaults \cup
    { [NoFault EXCEPT !.malloc = FALSE],
      [NoFault EXCEPT !.step = FALSE] }

\* The sizes of carved files
Sizes == { 0, 2048 }

\* A native record: named is fs_file->name != NULL
FsFile(named, name, meta_addr, par_addr, root_inum, attr) ==
    [ named |-> named, name |-> name, meta_addr |-> meta_addr,
      par_addr |-> par_addr, root_inum |-> root_inum, attr |-> attr ]

\* The records of the general specification: the unnamed record, and named
\* records with every combination of native addresses and one plain name.
FsFiles ==
    { FsFile(TRUE, << "a" >>, m, p, r, NoAttr) :
        m \in Addrs, p \in Addrs, r \in Addrs }
    \cup { FsFile(FALSE, << >>, 0, 0, 0, NoAttr) }

(* --------------------------- specifications ---------------------------- *)
\* The calls that allocate and ingest, with any argument a caller can pass
\* (the records are those of filesystems whose root address is 0) and the
\* faults F.
Content(F) ==
    \/ \E env \in F : addImageInfo(env)
    \/ \E p \in ObjIds, env \in F : addVsInfo(p, env)
    \/ \E p \in ObjIds, env \in F : addVolumeInfo(p, env)
    \/ \E p \in ObjIds, env \in F : addFsInfo(p, 0, env)
    \/ \E f \in { x \in FsFiles : x.root_inum = 0 }, fs \in ObjIds, env \in F :
           addFsFile(f, fs, env)
    \/ \E fs \in ObjIds, env \in F : addCarvedFileInfo(fs, << "a" >>, 2048, env)

Session ==
    \/ open
    \/ \E k \in {0, Len(Schema)} : initialize(k)
    \/ \E envOk \in BOOLEAN : setup(envOk)
    \/ cleanup

\* The calls that allocate and ingest, in any order, with any argument.
Next ==
    \/ Session
    \/ CanAllocate(MaxObjs) /\ Content(ExecFaults)

Spec == Init /\ [][Next]_vars

\* The registry calls alone, with any parent id, on a schema that was
\* created or not, either statement of a call failing.
NextRegistry ==
    \/ open
    \/ \E k \in {0, Len(Schema)} : initialize(k)
    \/ CanAllocate(MaxObjs) /\ \E env \in ExecFaults : addImageInfo(env)
    \/ CanAllocate(MaxObjs) /\
         \E p \in ObjIds, env \in ExecFaults : addVsInfo(p, env)
    \/ CanAllocate(MaxObjs) /\
         \E p \in ObjIds, env \in ExecFaults : addVolumeInfo(p, env)
    \/ CanAllocate(MaxObjs) /\
         \E p \in ObjIds, env \in ExecFaults : addFsInfo(p, 0, env)

SpecRegistry == Init /\ [][NextRegistry]_vars

\* Carved files of any size under any filesystem id, with the lookup
\* statement prepared or not.
NextCarved ==
    \/ open
    \/ initialize(Len(Schema))
    \/ \E envOk \in BOOLEAN : setup(envOk)
    \/ cleanup
    \/ CanAllocate(MaxObjs) /\
         \E fs \in ObjIds, size \in Sizes, env \in ExecFaults :
             addCarvedFileInfo(fs, << "a" >>, size, env)

SpecCarved == Init /\ [][NextCarved]_vars

\* Allocations inside transactions and savepoints; statements fail only for
\* what SQLite itself refuses (no such savepoint, no transaction).
NextTxn ==
    \/ open
    \/ initialize(Len(Schema))
    \/ begin(TRUE)
    \/ commit(TRUE)
    \/ \E n \in SavepointNames : savepoint(n, TRUE)
    \/ \E n \in SavepointNames : rollbackSavepoint(n, TRUE)
    \/ \E n \in SavepointNames : releaseSavepoint(n, TRUE)
    \/ CanAllocate(MaxObjs) /\ addImageInfo(NoFault)
    \/ CanAllocate(MaxObjs) /\ \E p \in ObjIds : addVsInfo(p, NoFault)

SpecTxn == Init /\ [][NextTxn]_vars

\* The ingestion of files alone: any record of a filesystem whose root
\* address is 0, any filesystem id; the lookup may fail in its step.
NextFiles ==
    \/ open
    \/ initialize(Len(Schema))
    \/ \E envOk \in BOOLEAN : setup(envOk)
    \/ cleanup
    \/ CanAllocate(MaxObjs) /\
         \E f \in { x \in FsFiles : x.root_inum = 0 }, fs \in ObjIds,
            env \in StepFaults : addFsFile(f, fs, env)
    \/ CanAllocate(MaxObjs) /\
         \E f \in { x \in FsFiles : x.par_addr = 0 /\ x.root_inum = 0 },
            fs \in ObjIds : addFile(f, fs, fs, NoFault)
    \/ CanAllocate(MaxObjs) /\
         \E fs \in ObjIds : addCarvedFileInfo(fs, << "a" >>, 2048, NoFault)

SpecFiles == Init /\ [][NextFiles]_vars

\* The objects of a session that is about something else than their number.
MaxOrphanObjs == 1

\* The runs stored in a session
MaxRuns == 2

\* Starts and lengths of runs: zero, a sector, and values with the top bit
\* of the 64 set.
ByteCounts == { U64(0, 0), U64(0, 512), U64(1, 0), U64(1, 512) }

\* Sessions constructed with and without block mapping: runs of files 1 and
\* 2 of filesystem 1 are recorded among allocating calls.
NextBlkMap ==
    \/ open
    \/ \E k \in {0, Len(Schema)} : initialize(k)
    \/ Cardinality(db.tsk_file_layout) < MaxRuns /\
         \E f \in 1..2, a_byteStart \in ByteCounts, a_byteLen \in ByteCounts,
            envOk \in BOOLEAN :
             addFsBlockInfo(1, f, a_byteStart, a_byteLen, envOk)
    \/ CanAllocate(MaxOrphanObjs) /\ addImageInfo(NoFault)
    \/ CanAllocate(MaxOrphanObjs) /\
         addFsFile(FsFile(TRUE, << "a" >>, 0, 0, 0, NoAttr), 1, NoFault)

SpecBlkMap == InitBlkMap /\ [][NextBlkMap]_vars

\* The second statement of a call fails, or nothing does.
SecondFaults == { NoFault, [NoFault EXCEPT !.exec2 = FALSE] }

\* The six allocating calls under object 1, any of them losing its second
\* insert, inside savepoints the caller opens, rolls back to and releases.
NextOrphan ==
    \/ open
    \/ initialize(Len(Schema))
    \/ \E n \in SavepointNames : savepoint(n, TRUE)
    \/ \E n \in SavepointNames : rollbackSavepoint(n, TRUE)
    \/ \E n \in SavepointNames : releaseSavepoint(n, TRUE)
    \/ CanAllocate(MaxOrphanObjs) /\ \E env \in SecondFaults : addImageInfo(env)
    \/ CanAllocate(MaxOrphanObjs) /\ \E env \in SecondFaults : addVsInfo(1, env)
    \/ CanAllocate(MaxOrphanObjs) /\ \E env \in SecondFaults : addVolumeInfo(1, env)
    \/ CanAllocate(MaxOrphanObjs) /\ \E env \in SecondFaults : addFsInfo(1, 0, env)
    \/ CanAllocate(MaxOrphanObjs) /\ \E env \in SecondFaults :
           addFile(FsFile(TRUE, << "a" >>, 0, 0, 0, NoAttr), 1, 1, env)
    \/ CanAllocate(MaxOrphanObjs) /\ \E env \in SecondFaults :
           addCarvedFileInfo(1, << "a" >>, 2048, env)

SpecOrphan == Init /\ [][NextOrphan]_vars

\* The process runs until a call ends it.
Running == last.why # "abort"

\* The life of a session object: opened, initialized, prepared, cleaned up
\* and closed in any order and any number of times, with images added to
\* the database in between.
NextLife ==
    \/ Running /\ open
    \/ Running /\ \E k \in {0, Len(Schema)} : initialize(k)
    \/ Running /\ \E envOk \in BOOLEAN : setup(envOk)
    \/ Running /\ cleanup
    \/ Running /\ close
    \/ Running /\ CanAllocate(MaxObjs) /\
         \E env \in ExecFaults : addImageInfo(env)

SpecLife == Init /\ [][NextLife]_vars

\* The calls that pass m_db to SQLite
HandleCalls ==
    { "close", "initialize", "setup", "addImageInfo", "addVsInfo",
      "addVolumeInfo", "addFsInfo", "addFsFile", "addCarvedFileInfo",
      "addFsBlockInfo" }

\* A session whose open may fail, and every kind of call after it: close,
\* initialize, setup, cleanup, the allocating calls and a run, each of which
\* may end the process when it hands SQLite a closed handle.
NextOpen ==
    \/ Running /\ \E outcome \in OpenOutcomes : openAs(outcome)
    \/ Running /\ close
    \/ Running /\ initialize(Len(Schema))
    \/ Running /\ setup(TRUE)
    \/ Running /\ cleanup
    \/ Running /\ CanAllocate(MaxObjs) /\ addImageInfo(NoFault)
    \/ Running /\ CanAllocate(MaxObjs) /\ addVsInfo(1, NoFault)
    \/ Running /\ CanAllocate(MaxObjs) /\ addVolumeInfo(1, NoFault)
    \/ Running /\ CanAllocate(MaxObjs) /\ addFsInfo(1, 0, NoFault)
    \/ Running /\ CanAllocate(MaxObjs) /\
         addFsFile(FsFile(TRUE, << "a" >>, 0, 0, 0, NoAttr), 1, NoFault)
    \/ Running /\ CanAllocate(MaxObjs) /\
         addCarvedFileInfo(1, << "a" >>, 2048, NoFault)
    \/ Running /\ addFsBlockInfo(1, 1, U64(0, 0), U64(0, 512), TRUE)
    \/ Running /\
         \E op \in HandleCalls : useAfterClose(op)

SpecOpen == Init /\ [][NextOpen]_vars

\* The savepoints that are open at once in a session of every operation.
MaxNesting == 1

\* Every operation of a session, in any order: the six allocating calls
\* under object 1, transactions and savepoint A, the lookup statement, and
\* close (after cleanup) and open again.
NextAppend ==
    \/ open
    \/ initialize(Len(Schema))
    \/ setup(TRUE)
    \/ cleanup
    \/ m_selectFileIdByMetaAddr = "NULL" /\ close
    \/ begin(TRUE)
    \/ commit(TRUE)
    \/ Len(savepoints) < MaxNesting /\ savepoint("A", TRUE)
    \/ rollbackSavepoint("A", TRUE)
    \/ releaseSavepoint("A", TRUE)
    \/ CanAllocate(MaxObjs) /\ addImageInfo(NoFault)
    \/ CanAllocate(MaxObjs) /\ addVsInfo(1, NoFault)
    \/ CanAllocate(MaxObjs) /\ addVolumeInfo(1, NoFault)
    \/ CanAllocate(MaxObjs) /\ addFsInfo(1, 0, NoFault)
    \/ CanAllocate(MaxObjs) /\
         addFsFile(FsFile(TRUE, << "a" >>, 0, 0, 0, NoAttr), 1, NoFault)
    \/ CanAllocate(MaxObjs) /\
         addCarvedFileInfo(1, << "a" >>, 2048, NoFault)

SpecAppend == Init /\ [][NextAppend]_vars

\* The ids of the objects of a type that were handed out and are stored.
Known(type) ==
    { r.obj_id : r \in { x \in db.tsk_objects :
                           x.type = type /\ x.obj_id \in returned } }

\* fs_info->root_inum of the filesystem recorded as object fs
RootInum(fs) ==
    (CHOOSE r \in db.tsk_fs_info : r.obj_id = fs).root_inum

\* The traversal of one image, top-down: every call names as parent an object
\* id an earlier call handed out (a volume system in the image, a volume in a
\* volume system, a filesystem in a volume or in the image, a file in a
\* filesystem); the root address of a filesystem is 0 or 1, and a native
\* record carries the root address of its filesystem.
NextIngest ==
    \/ open
    \/ initialize(Len(Schema))
    \/ setup(TRUE)
    \/ db.tsk_objects = {} /\ addImageInfo(NoFault)
    \/ CanAllocate(MaxIngest) /\
         \E p \in Known(DB_OBJECT_TYPE_IMG) : addVsInfo(p, NoFault)
    \/ CanAllocate(MaxIngest) /\
         \E p \in Known(DB_OBJECT_TYPE_VS) : addVolumeInfo(p, NoFault)
    \/ CanAllocate(MaxIngest) /\
         \E p \in Known(DB_OBJECT_TYPE_VOL) \cup Known(DB_OBJECT_TYPE_IMG),
            a \in {0, 1} : addFsInfo(p, a, NoFault)
    \/ CanAllocate(MaxIngest) /\
         \E fs \in Known(DB_OBJECT_TYPE_FS), m \in Addrs, p \in Addrs :
             addFsFile(FsFile(TRUE, << "a" >>, m, p, RootInum(fs), NoAttr),
                       fs, NoFault)

SpecIngest == Init /\ [][NextIngest]_vars

\* The attributes a file is ingested with: none, one without a name, the
\* NTFS index root $I30, an index root of another name, a data stream called
\* $I30, a data stream of any name.
Attrs ==
    { NoAttr, UnnamedAttr(TSK_FS_ATTR_TYPE_NTFS_DATA),
      NamedAttr(TSK_FS_ATTR_TYPE_NTFS_IDXROOT, I30),
      NamedAttr(TSK_FS_ATTR_TYPE_NTFS_IDXROOT, << "a" >>),
      NamedAttr(TSK_FS_ATTR_TYPE_NTFS_DATA, I30) }
    \cup { NamedAttr(TSK_FS_ATTR_TYPE_NTFS_DATA, n) : n \in Names(MaxNameLen) }

\* What may lie in memory right after the name buffer: a NUL, a byte and a
\* NUL, a quote and a NUL.
Garbage == { << >>, << "x" >>, << Quote >> }

Garbled == { [NoFault EXCEPT !.garbage = g] : g \in Garbage }

\* The ingestion of names: files and carved files of any name over the
\* alphabet, with any attribute, under filesystem 1.
NextName ==
    \/ open
    \/ initialize(Len(Schema))
    \/ CanAllocate(MaxObjs) /\
         \E n \in Names(MaxNameLen), a \in Attrs, env \in Garbled :
             addFile(FsFile(TRUE, n, 0, 0, 0, a), 1, 1, env)
    \/ CanAllocate(MaxObjs) /\
         \E n \in Names(MaxNameLen), env \in Garbled :
             addCarvedFileInfo(1, n, 2048, env)

SpecName == Init /\ [][NextName]_vars

(* ------------------------------- claims -------------------------------- *)
ObjectIds(d) == { r.obj_id : r \in d.tsk_objects }

Allocating ==
    { "addImageInfo", "addVsInfo", "addVolumeInfo", "addFsInfo", "addFsFile",
      "addFile", "addCarvedFileInfo" }

\* C1: in a session of allocating calls (no rollback between them), the id a
\* successful call hands out is greater than every id handed out before it,
\* hence different from each of them.
C1_IdsStrictlyIncreasing ==
    [][ (last'.op \in Allocating /\ last'.rc = 0 /\ last'.objId # NULL)
        => \A x \in returned : last'.objId > x ]_vars

\* C1 witness: a second id has been handed out, by an addFsFile that found
\* its parent with the lookup.
C1_Witness ==
    /\ returned = {1, 2}
    /\ last.op = "addFsFile" /\ last.rc = 0 /\ last.objId = 2
    /\ last.stmtCalls = 4

\* C2: every object that is not an image has a parent that was in
\* tsk_objects before it, and a call that names a parent id tsk_objects does
\* not hold fails and inserts nothing.
C2_ParentExists ==
    /\ \A r \in db.tsk_objects :
         r.type # DB_OBJECT_TYPE_IMG
         => \E q \in db.tsk_objects :
                q.obj_id = r.par_obj_id /\ q.obj_id < r.obj_id
    /\ \A p \in ObjIds \ ObjectIds(db), env \in Faults :
         LET r == addVsInfoResult(p, env)
         IN r.rc = 1 /\ r.db = db

\* Following par_obj_id from id reaches an image within n steps, and no
\* object is met twice on the way.
RECURSIVE ReachesImage(_, _, _)
ReachesImage(d, id, seen) ==
    /\ id \notin seen
    /\ \E r \in d.tsk_objects :
         /\ r.obj_id = id
         /\ \/ r.type = DB_OBJECT_TYPE_IMG /\ r.par_obj_id = NULL
            \/ r.type # DB_OBJECT_TYPE_IMG /\ r.par_obj_id # NULL
               /\ ReachesImage(d, r.par_obj_id, seen \cup {id})

\* C3: the parent relation of tsk_objects is a forest: one row for each
\* object, a NULL parent for images only, and from every object the chain of
\* parents ends at an image without meeting an object twice.
C3_Forest ==
    /\ \A r, q \in db.tsk_objects : r.obj_id = q.obj_id => r = q
    /\ \A r \in db.tsk_objects :
         (r.par_obj_id = NULL) <=> (r.type = DB_OBJECT_TYPE_IMG)
    /\ \A r \in db.tsk_objects : ReachesImage(db, r.obj_id, {})

\* The tsk_objects row of object id in d.
ObjectRow(d, id) == CHOOSE r \in d.tsk_objects : r.obj_id = id

\* The tsk_files rows of d ingested under filesystem fs with native address a.
FilesAt(d, fs, a) ==
    { x \in d.tsk_files : x.fs_obj_id = fs /\ x.meta_addr = a }

\* Image 1, volume system 2, volume 3, filesystem 4 with root address root,
\* root directory 5.
ScenarioTree(root) ==
    [ EmptyDb EXCEPT
        !.tables = db.tables,
        !.tsk_objects =
            { [ obj_id |-> 1, par_obj_id |-> NULL, type |-> DB_OBJECT_TYPE_IMG ],
              [ obj_id |-> 2, par_obj_id |-> 1, type |-> DB_OBJECT_TYPE_VS ],
              [ obj_id |-> 3, par_obj_id |-> 2, type |-> DB_OBJECT_TYPE_VOL ],
              [ obj_id |-> 4, par_obj_id |-> 3, type |-> DB_OBJECT_TYPE_FS ],
              [ obj_id |-> 5, par_obj_id |-> 4, type |-> DB_OBJECT_TYPE_FILE ] },
        !.tsk_image_info = { [ obj_id |-> 1 ] },
        !.tsk_vs_info = { [ obj_id |-> 2 ] },
        !.tsk_vs_parts = { [ obj_id |-> 3 ] },
        !.tsk_fs_info = { [ obj_id |-> 4, root_inum |-> root ] },
        !.tsk_files =
            { [ fs_obj_id |-> 4, obj_id |-> 5, type |-> DB_FILES_TYPE_FS,
                name |-> << "a" >>, meta_addr |-> root,
                cols |-> FsCols(NoAttr) ] } ]

\* C4: during the ingestion of an image, an addFsFile that succeeds on a
\* record whose meta address is not the root address of its filesystem
\* records as parent the object id of a tsk_files row that was there before
\* the call, under the same fs_obj_id and with meta_addr equal to the
\* record's par_addr; every stored file whose parent is not its filesystem
\* has a file of the same filesystem as parent.  After Image, VolumeSystem,
\* Volume, FileSystem (1 to 4) and the root directory (5), a child whose
\* par_addr is the root's address gets id 6 and parent 5.
C4_ParentIsDirectoryOfSameFs ==
    /\ \A fs \in Known(DB_OBJECT_TYPE_FS), m \in Addrs, p \in Addrs :
         LET r == addFsFileResult(
                      FsFile(TRUE, << "a" >>, m, p, RootInum(fs), NoAttr),
                      fs, NoFault)
         IN (m # RootInum(fs) /\ r.rc = 0)
            => /\ r.objId \notin ObjectIds(db)
               /\ \E x \in FilesAt(db, fs, p) :
                    ObjectRow(r.db, r.objId).par_obj_id = x.obj_id
    /\ \A x \in db.tsk_files :
         ObjectRow(db, x.obj_id).par_obj_id # x.fs_obj_id
         => \E y \in db.tsk_files :
                /\ y.obj_id = ObjectRow(db, x.obj_id).par_obj_id
                /\ y.fs_obj_id = x.fs_obj_id
    /\ \A root \in Addrs, m \in Addrs :
         (db = ScenarioTree(root) /\ m_selectFileIdByMetaAddr = "STMT"
          /\ m # root)
         => LET r == addFsFileResult(
                         FsFile(TRUE, << "a" >>, m, root, root, NoAttr),
                         4, NoFault)
            IN /\ r.rc = 0 /\ r.objId = 6
               /\ r.db.tsk_objects = db.tsk_objects \cup
                    { [ obj_id |-> 6, par_obj_id |-> 5,
                        type |-> DB_OBJECT_TYPE_FILE ] }

\* C4 witness: the tree 1<-2<-3<-4<-5<-6 has been built, the last call being
\* the addFsFile that found directory 5 with the lookup.
C4_Witness ==
    /\ last.op = "addFsFile" /\ last.rc = 0 /\ last.objId = 6
    /\ last.stmtCalls = 4
    /\ \E root \in Addrs :
         db.tsk_objects = ScenarioTree(root).tsk_objects \cup
             { [ obj_id |-> 6, par_obj_id |-> 5, type |-> DB_OBJECT_TYPE_FILE ] }

\* C5: addFsFile on a named record whose meta address is the root address
\* of its filesystem makes no call on the lookup statement and leaves it as
\* it was, and the object it allocates has fsObjId as parent, whatever
\* par_addr is and whatever tsk_files holds.
C5_RootShortcut ==
    \A f \in FsFiles, fs \in ObjIds, env \in Faults :
        (f.named /\ f.meta_addr = f.root_inum)
        => LET r == addFsFileResult(f, fs, env)
           IN /\ r.stmtCalls = 0
              /\ r.stmt = m_selectFileIdByMetaAddr
              /\ r.objId # NULL
                 => /\ r.objId \notin ObjectIds(db)
                    /\ ObjectRow(r.db, r.objId) =
                         [ obj_id |-> r.objId, par_obj_id |-> fs,
                           type |-> DB_OBJECT_TYPE_FILE ]
              /\ r.rc = 0 => r.objId # NULL

\* C5 witness: a root directory has been ingested into a tsk_files that held
\* a row already, with the lookup statement prepared and not used.
C5_Witness ==
    /\ last.op = "addFsFile" /\ last.rc = 0 /\ last.stmtCalls = 0
    /\ last.objId = 2 /\ Cardinality(db.tsk_files) = 2
    /\ ObjectRow(db, 2).par_obj_id = 1
    /\ m_selectFileIdByMetaAddr = "STMT"

\* C6: addFsFile on a named record that is not the root, when tsk_files has
\* no row with the record's par_addr under fsObjId, returns 1, hands out no
\* object id and leaves every table as it was.
C6_OrphanIsError ==
    \A f \in FsFiles, fs \in ObjIds, env \in Faults :
        (f.named /\ f.meta_addr # f.root_inum /\ FilesAt(db, fs, f.par_addr) = {})
        => LET r == addFsFileResult(f, fs, env)
           IN r.rc = 1 /\ r.objId = NULL /\ r.db = db

\* C6 witness: the lookup ran on a tsk_files that holds rows, found none for
\* the parent, and the call returned 1.
C6_Witness ==
    /\ last.op = "addFsFile" /\ last.rc = 1 /\ last.why = "norow"
    /\ last.objId = NULL /\ last.stmtCalls = 4
    /\ db.tsk_files # {}

\* The positions of the savepoints called name in the stack.
Named(stack, name) == { i \in 1..Len(stack) : stack[i].name = name }

\* C7: a savepoint that is taken records the rows the store holds; no later
\* step changes what a savepoint that is still there recorded, whatever is
\* written and whatever savepoints are taken and released inside it; and a
\* rollbackSavepoint that succeeds leaves the store with exactly the rows the
\* innermost savepoint of that name recorded (those written before it, none
\* written after it), the transaction open and that savepoint in place.
C7_SavepointIsolation ==
    [][ /\ (last'.op = "savepoint" /\ last'.rc = 0)
           => /\ savepoints' =
                   Append(savepoints, [ name |-> last'.name, snap |-> db ])
              /\ db' = db /\ autocommit' = FALSE
        /\ \A i \in 1..Len(savepoints') :
               i <= Len(savepoints) => savepoints'[i] = savepoints[i]
        /\ (last'.op = "rollbackSavepoint" /\ last'.rc = 0)
           => /\ Named(savepoints, last'.name) # {}
              /\ LET k == Max(Named(savepoints, last'.name))
                 IN /\ db' = savepoints[k].snap
                    /\ savepoints' = SubSeq(savepoints, 1, k)
              /\ autocommit = FALSE /\ autocommit' = FALSE ]_vars

\* C7 witness: a rollback to a savepoint has succeeded; an object that had
\* been handed out is gone from the store, an object written before the
\* savepoint is still there, and the transaction is open.
C7_Witness ==
    /\ last.op = "rollbackSavepoint" /\ last.rc = 0
    /\ returned = {1, 2}
    /\ ObjectIds(db) = {1}
    /\ Len(savepoints) >= 1 /\ savepoints[Len(savepoints)].snap = db
    /\ autocommit = FALSE

\* C8: an object id that a successful allocation has returned is never
\* returned by a later allocation, whatever savepoints are taken, rolled
\* back and released in between.
C8_IdNeverReused ==
    [][ (last'.op \in Allocating /\ last'.rc = 0 /\ last'.objId # NULL)
        => last'.objId \notin returned ]_vars

\* The name a file is to be stored under: its name, followed by a colon and
\* the stream name when the attribute has one (the NTFS index root $I30
\* counts as having none).
OriginalName(name, attr) ==
    IF /\ attr.present /\ attr.hasName /\ attr.name # << >>
       /\ ~(attr.type = TSK_FS_ATTR_TYPE_NTFS_IDXROOT /\ attr.name = I30)
    THEN name \o << Colon >> \o attr.name
    ELSE name

\* The tsk_files row of object id in d.
FileRow(d, id) == CHOOSE x \in d.tsk_files : x.obj_id = id

\* C9: once the tables exist, addFile and addCarvedFileInfo store every name
\* over the alphabet: the call succeeds and the name SQLite reads from the
\* literal is the original byte for byte, whatever quotes it holds and
\* whatever lies in memory around the buffer.
C9_NameRoundTrip ==
    (m_db = "OPEN" /\ HasTable(db, "tsk_files"))
    => /\ \A n \in Names(MaxNameLen), a \in Attrs, env \in Garbled :
            LET r == addFileResult(FsFile(TRUE, n, 0, 0, 0, a), 1, 1, env, 0)
            IN /\ r.rc = 0
               /\ FileRow(r.db, r.objId).name = OriginalName(n, a)
       /\ \A n \in Names(MaxNameLen), env \in Garbled :
            LET r == addCarvedFileInfoResult(1, n, 2048, env)
            IN /\ r.rc = 0
               /\ FileRow(r.db, r.objId).name = n

\* C10: on a record without a name, addFsFile and addFile return 0, make no
\* call on the lookup statement, hand out no object id and leave every table
\* as it was.
C10_UnnamedIsSkipped ==
    \A f \in FsFiles, fs \in ObjIds, p \in ObjIds, env \in Faults :
        ~f.named
        => LET r == addFsFileResult(f, fs, env)
               q == addFileResult(f, fs, p, env, 0)
           IN /\ r.rc = 0 /\ r.objId = NULL /\ r.db = db
              /\ r.stmtCalls = 0 /\ r.stmt = m_selectFileIdByMetaAddr
              /\ q.rc = 0 /\ q.objId = NULL /\ q.db = db
              /\ q.stmtCalls = 0 /\ q.stmt = m_selectFileIdByMetaAddr

\* C10 witness: addFsFile skipped an unnamed record while tsk_files held a
\* row and the lookup statement was prepared.
C10_Witness ==
    /\ last.op = "addFsFile" /\ last.rc = 0 /\ last.why = "skip"
    /\ last.objId = NULL
    /\ db.tsk_files # {} /\ m_selectFileIdByMetaAddr = "STMT"


\* The rows of table t in d.
Table(d, t) ==
    CASE t = "tsk_objects"    -> d.tsk_objects
      [] t = "tsk_image_info" -> d.tsk_image_info
      [] t = "tsk_vs_info"    -> d.tsk_vs_info
      [] t = "tsk_vs_parts"   -> d.tsk_vs_parts
      [] t = "tsk_fs_info"    -> d.tsk_fs_info
      [] t = "tsk_files"      -> d.tsk_files
      [] t = "tsk_file_layout" -> d.tsk_file_layout

AttributeTables ==
    { "tsk_image_info", "tsk_vs_info", "tsk_vs_parts", "tsk_fs_info" }

\* Result r of a call on the present state is that of a registry call
\* writing to attribute table t: it makes no call on the lookup statement;
\* on success tsk_objects and t have each gained exactly one row, both with
\* the returned id, and no other table has changed; when the insert into
\* tsk_objects did not succeed (firstOk is FALSE) nothing was written.
OneRowEach(r, t, firstOk) ==
    /\ r.stmtCalls = 0 /\ r.stmt = m_selectFileIdByMetaAddr
    /\ r.rc = 0
       => /\ r.objId \notin ObjectIds(db)
          /\ \E row \in r.db.tsk_objects :
               /\ row.obj_id = r.objId
               /\ r.db.tsk_objects = db.tsk_objects \cup {row}
          /\ \E row \in Table(r.db, t) :
               /\ row.obj_id = r.objId
               /\ row \notin Table(db, t)
               /\ Table(r.db, t) = Table(db, t) \cup {row}
          /\ \A u \in (AttributeTables \cup {"tsk_files"}) \ {t} :
               Table(r.db, u) = Table(db, u)
    /\ ~firstOk => (r.rc = 1 /\ r.db = db)

\* C11: a successful addImageInfo, addVsInfo, addVolumeInfo or addFsInfo adds
\* exactly one row to tsk_objects and exactly one row with the same new id
\* to its attribute table, and uses no query; when the insert into
\* tsk_objects fails nothing else is written; so every row of an attribute
\* table has its tsk_objects row.
C11_OneObjectOneAttributeRow ==
    /\ \A p \in ObjIds, a \in Addrs, env \in ExecFaults :
         LET firstOk == m_db = "OPEN" /\ HasTable(db, "tsk_objects") /\ env.exec1
         IN /\ OneRowEach(addImageInfoResult(env), "tsk_image_info", firstOk)
            /\ OneRowEach(addVsInfoResult(p, env), "tsk_vs_info", firstOk)
            /\ OneRowEach(addVolumeInfoResult(p, env), "tsk_vs_parts", firstOk)
            /\ OneRowEach(addFsInfoResult(p, a, env), "tsk_fs_info", firstOk)
    /\ \A t \in AttributeTables :
         \A row \in Table(db, t) : row.obj_id \in ObjectIds(db)

\* C11 witness: a second registry call has succeeded, and its object row and
\* attribute row are both stored under the id it returned.
C11_Witness ==
    /\ last.op = "addFsInfo" /\ last.rc = 0 /\ last.objId = 2
    /\ \E row \in db.tsk_fs_info : row.obj_id = 2
    /\ \E row \in db.tsk_objects :
         row.obj_id = 2 /\ row.type = DB_OBJECT_TYPE_FS
    /\ Cardinality(db.tsk_image_info) = 1


C13_CloseIsIdempotent ==
    [][ /\ (last'.op = "close" /\ ~dbExist)
           => /\ last'.rc = 0 /\ last'.why = "noop"
              /\ UNCHANGED << m_db, m_selectFileIdByMetaAddr, db, committed, txn,
                              returned >>
        /\ (last'.op = "close" /\ Running') => (last'.rc = 0 /\ ~dbExist')
      ]_vars

\* C13 witness: a close() found no handle and did nothing, on a session whose
\* earlier close() had finalized the statement and closed the handle.
C13_Witness ==
    /\ last.op = "close" /\ last.rc = 0 /\ last.why = "noop"
    /\ m_selectFileIdByMetaAddr = "FREED"
    /\ ~dbExist


\* The display name of a file ingested with attribute attr: the name alone
\* without an attribute, with an attribute that has no name, and with the
\* NTFS index root $I30; the name, a colon and the stream name otherwise.
DisplayName(name, attr) ==
    IF \/ ~attr.present
       \/ ~attr.hasName
       \/ (attr.type = TSK_FS_ATTR_TYPE_NTFS_IDXROOT /\ attr.name = I30)
    THEN name
    ELSE name \o << Colon >> \o attr.name

\* C14: once the tables exist, the name addFile stores is the file name
\* alone when there is no attribute, when the attribute has no name and when
\* it is the NTFS index root $I30, and the file name, ':' and the stream
\* name in every other case.
C14_DisplayName ==
    (m_db = "OPEN" /\ HasTable(db, "tsk_files"))
    => \A n \in Names(MaxNameLen), a \in Attrs, env \in Garbled :
           LET r == addFileResult(FsFile(TRUE, n, 0, 0, 0, a), 1, 1, env, 0)
           IN /\ r.rc = 0
              /\ FileRow(r.db, r.objId).name = DisplayName(n, a)

\* C15: during the ingestion of an image, where a record is accepted only
\* after the directory it names as parent, the parent lookup of addFsFile
\* for (par_addr, fsObjId) matches exactly one tsk_files row whenever it
\* matches any: no two File rows of a filesystem share the meta_addr a
\* child refers to, and the parent recorded is that one row.
C15_LookupMatchesOneRow ==
    (m_db = "OPEN" /\ m_selectFileIdByMetaAddr = "STMT")
    => \A fs \in Known(DB_OBJECT_TYPE_FS), m \in Addrs, p \in Addrs :
           LET r == addFsFileResult(
                        FsFile(TRUE, << "a" >>, m, p, RootInum(fs), NoAttr),
                        fs, NoFault)
               found == SelectFileIdByMetaAddr(db, p, fs)
           IN (m # RootInum(fs) /\ found # {})
              => /\ r.rc = 0
                 /\ found = { ObjectRow(r.db, r.objId).par_obj_id }

\* Object o of database d has its tsk_objects row and no attribute row.
Orphan(d, o) ==
    /\ o \in ObjectIds(d)
    /\ \A t \in AttributeTables \cup {"tsk_files"} :
         \A row \in Table(d, t) : row.obj_id # o

\* C16: an allocating call whose second insert fails after its tsk_objects
\* insert succeeded returns 1, has added the tsk_objects row of a new id and
\* nothing else, and leaves the transaction and its savepoints as they
\* were; the id stays without an attribute row through every later call
\* except a rollback, and a rollback to a savepoint taken before the call
\* removes it.
C16_OrphanUntilRollback ==
    [][ /\ (last'.op \in Allocating /\ last'.why = "exec2")
           => /\ last'.rc = 1
              /\ last'.objId \notin ObjectIds(db)
              /\ Orphan(db', last'.objId)
              /\ \E row \in db'.tsk_objects :
                   /\ row.obj_id = last'.objId
                   /\ db'.tsk_objects = db.tsk_objects \cup {row}
              /\ \A t \in AttributeTables \cup {"tsk_files"} :
                   Table(db', t) = Table(db, t)
              /\ UNCHANGED << autocommit, isTransactionSavepoint, savepoints >>
        /\ ~(last'.op = "rollbackSavepoint" /\ last'.rc = 0)
           => \A o \in ObjectIds(db) : Orphan(db, o) => Orphan(db', o)
        /\ (last'.op = "rollbackSavepoint" /\ last'.rc = 0)
           => LET k == FindSavepoint(savepoints, last'.name)
              IN \A o \in ObjectIds(db) :
                   (Orphan(db, o) /\ o \notin ObjectIds(savepoints[k].snap))
                   => o \notin ObjectIds(db')
      ]_vars

\* C16 witness: inside a savepoint an allocating call has lost its second
\* insert: the id it allocated is stored without an attribute row, and the
\* savepoint taken before the call does not have it.
C16_Witness ==
    /\ last.op \in Allocating /\ last.why = "exec2" /\ last.rc = 1
    /\ Orphan(db, last.objId)
    /\ Len(savepoints) > 0
    /\ last.objId \notin ObjectIds(savepoints[Len(savepoints)].snap)

\* Every row of database d is in database e as it is in d.
Keeps(d, e) ==
    \A t \in AttributeTables \cup
             {"tsk_objects", "tsk_files", "tsk_file_layout"} :
      Table(d, t) \subseteq Table(e, t)

\* C17 as stated: no operation other than a rollbackSavepoint that succeeds
\* removes or changes a row that was written before it.
C17_OnlyRollbackRemoves ==
    [][ ~(last'.op = "rollbackSavepoint" /\ last'.rc = 0) => Keeps(db, db')
      ]_vars

\* C17: every allocating call, savepoint, releaseSavepoint, begin, commit,
\* setup, cleanup, open and initialize leaves every row that was written
\* before it as it was, and so does a close outside a transaction; a
\* rollbackSavepoint that succeeds leaves the rows of the savepoint it names,
\* and a close inside a transaction leaves the rows that were committed.
C17_AppendOnly ==
    [][ /\ ~(\/ last'.op = "rollbackSavepoint" /\ last'.rc = 0
             \/ last'.op = "close" /\ ~autocommit /\ dbExist)
           => Keeps(db, db')
        /\ (last'.op = "rollbackSavepoint" /\ last'.rc = 0)
           => db' = savepoints[FindSavepoint(savepoints, last'.name)].snap
        /\ (last'.op = "close" /\ ~autocommit /\ dbExist)
           => (db' = committed /\ Keeps(committed, db))
      ]_vars

\* C17 witness: after two allocating calls inside a savepoint, of which one
\* stored a file, the savepoint has been released and both rows are there.
C17_Witness ==
    /\ last.op = "releaseSavepoint" /\ last.rc = 0
    /\ Cardinality(db.tsk_objects) = 2
    /\ db.tsk_files # {}

\* Result r of addFsBlockInfo(fs, f, start, len) on the present state: in
\* a session with block mapping whose table was created it is 0 unless the
\* statement failed, and then the table has one more row, with the filesystem,
\* the file, the start and the length that were given, and nothing else has
\* changed; in a session without block mapping it is 1 and nothing has
\* changed.
OneRunRow(r, fs, f, start, len, envOk) ==
    /\ (m_blkMapFlag /\ m_db = "OPEN" /\ HasTable(db, "tsk_file_layout")
        /\ envOk)
       => /\ r.rc = 0
          /\ \E row \in r.db.tsk_file_layout :
               /\ row \notin db.tsk_file_layout
               /\ r.db = [db EXCEPT !.tsk_file_layout = @ \cup {row}]
               /\ row.fs_id = fs /\ row.obj_id = f
               /\ row.byte_start = SqlInteger(start)
               /\ row.byte_len = SqlInteger(len)
    /\ ~m_blkMapFlag => (r.rc = 1 /\ r.db = db)

\* C18: tsk_file_layout exists only in a session constructed with block
\* mapping and only addFsBlockInfo changes it; there addFsBlockInfo adds
\* exactly one row, holding the start and the length it was given (a length
\* of 0 included), and changes no other table; in a session without block
\* mapping it returns 1 and changes nothing.
C18_BlockLayout ==
    [][ /\ HasTable(db, "tsk_file_layout") => m_blkMapFlag
        /\ last'.op # "addFsBlockInfo"
           => db'.tsk_file_layout = db.tsk_file_layout
        /\ \A f \in 1..2, start \in ByteCounts, len \in ByteCounts,
              envOk \in BOOLEAN :
             OneRunRow(addFsBlockInfoResult(1, f, start, len, envOk),
                       1, f, start, len, envOk)
      ]_vars

\* C19: for every file name and every attribute addFile is given once the
\* tables exist, the loops leave the write index j at 2 * (len + attr_nlen) or below, and the
\* last byte of the buffer of 2 * (len + attr_nlen) + 1 bytes is still the
\* NUL it was allocated with.
C19_WriteIndexBounded ==
    (m_db = "OPEN" /\ HasTable(db, "tsk_files"))
    => \A n \in Names(MaxNameLen), a \in Attrs :
           LET nlen == 2 * (Len(n) + AttrNlen(a))
               w == SanitizeLoops(n, a)
           IN /\ w.j <= nlen
              /\ w.buf[nlen + 1] = NUL

\* C20: over every order of open, setup, cleanup and close, no call
\* finalizes a statement that was finalized before (which is also the only
\* way a statement is finalized after its handle was closed), and setup
\* never replaces the pointer to a statement that has not been finalized,
\* which would be left unfinalized when the session closes.
C20_FinalizedExactlyOnce ==
    [][ /\ last'.op \in {"cleanup", "close"}
           => last'.why \notin {"again", "abort"}
        /\ last'.op = "setup"
           => m_selectFileIdByMetaAddr \notin {"STMT", "STMT_ERR"}
      ]_vars

\* C21: an open() that returns an error leaves the session without a
\* handle (dbExist() is false); the close() that follows it closes nothing,
\* and an allocating call or addFsBlockInfo that follows it returns 1, hands
\* nothing to SQLite and leaves the database as it was.
C21_NoHandleAfterOpenError ==
    [][ /\ (last'.op = "open" /\ last'.rc # 0) => ~dbExist'
        /\ (last.op = "open" /\ last.rc # 0 /\ last'.op = "close")
           => last'.why = "noop"
        /\ (last.op = "open" /\ last.rc # 0
            /\ last'.op \in Allocating \cup {"addFsBlockInfo"})
           => /\ last'.rc = 1 /\ last'.why # "abort"
              /\ db' = db
      ]_vars

====
